---- MODULE Spec2Model ----
(***************************************************************************)
(* ChatBridge CQHttp bridge (chatbridge/impl/cqhttp/entry.py): the message *)
(* routing of CQBot.on_message, the chunking of CQBot.send_text, the relay *)
(* and command dispatch of CqHttpChatBridgeClient.on_chat and on_command,  *)
(* the two rate limiters, and the start-up order of main().                *)
(*                                                                         *)
(* Text is a sequence of characters.  A character is a one-character       *)
(* string; a character outside ASCII is named by its code point ("u79bb"). *)
(***************************************************************************)
EXTENDS Integers, Sequences, FiniteSets, TLC

----------------------------------------------------------------------------
(* Characters and the str methods the handlers use.                        *)

LowerLetters ==
    <<"a", "b", "c", "d", "e", "f", "g", "h", "i", "j", "k", "l", "m", "n", "o", "p", "q", "r",
      "s", "t", "u", "v", "w", "x", "y", "z">>

UpperLetters ==
    <<"A", "B", "C", "D", "E", "F", "G", "H", "I", "J", "K", "L", "M", "N", "O", "P", "Q", "R",
      "S", "T", "U", "V", "W", "X", "Y", "Z">>

Digits ==
    {"0", "1", "2", "3", "4", "5", "6", "7", "8", "9"}

AsciiWord ==
    {LowerLetters[i] : i \in 1..26} \cup {UpperLetters[i] : i \in 1..26} \cup Digits \cup {"_"}

\* The CJK ideographs of the aliases and notices: alphanumeric for \w, caseless.
Ideographs ==
    {"u79bb", "u7ebf", "u767d", "u540d", "u5355", "u5ba2", "u6237", "u7aef"}

Whitespace ==
    {" ", "\n", "\t"}

\* str.lower() on one character
LowerChar(c) ==
    IF \E i \in 1..26 : UpperLetters[i] = c
    THEN LowerLetters[CHOOSE i \in 1..26 : UpperLetters[i] = c]
    ELSE c

\* str.lower()
Lower(s) ==
    [i \in 1..Len(s) |-> LowerChar(s[i])]

\* s[i:] with a 1-based index
From(s, i) ==
    SubSeq(s, i, Len(s))

\* str.startswith at offset i (1-based)
StartsAt(s, i, p) ==
    /\ i + Len(p) - 1 <= Len(s)
    /\ SubSeq(s, i, i + Len(p) - 1) = p

\* str.startswith
StartsWith(s, p) ==
    StartsAt(s, 1, p)

\* str.find(sub) != -1
Contains(s, sub) ==
    \E i \in 1..(Len(s) + 1) : StartsAt(s, i, sub)

\* the first index >= i of s holding a character of (or, with inside = FALSE, not
\* of) the set cs; Len(s) + 1 when there is none
Scan(s, i, cs, inside) ==
    LET hits == {j \in i..Len(s) : (s[j] \in cs) = inside}
    IN  IF hits = {} THEN Len(s) + 1 ELSE CHOOSE j \in hits : \A k \in hits : j <= k

\* str.lstrip()
LStrip(s) ==
    From(s, Scan(s, 1, Whitespace, FALSE))

\* str.rstrip()
RECURSIVE RStrip(_)
RStrip(s) ==
    IF s # <<>> /\ s[Len(s)] \in Whitespace THEN RStrip(SubSeq(s, 1, Len(s) - 1)) ELSE s

\* str.strip()
Strip(s) ==
    RStrip(LStrip(s))

\* str.split(sep) for a one-character separator: every separator splits, empty
\* pieces are kept
RECURSIVE SplitFrom(_, _, _, _, _)
SplitFrom(s, sep, i, piece, acc) ==
    IF i > Len(s) THEN Append(acc, piece)
    ELSE IF s[i] = sep THEN SplitFrom(s, sep, i + 1, <<>>, Append(acc, piece))
    ELSE SplitFrom(s, sep, i + 1, Append(piece, s[i]), acc)

SplitSep(s, sep) ==
    SplitFrom(s, sep, 1, <<>>, <<>>)

\* str.split(sep, 1)
SplitSepOnce(s, sep) ==
    LET i == Scan(s, 1, {sep}, TRUE)
    IN  IF i > Len(s) THEN <<s>> ELSE <<SubSeq(s, 1, i - 1), From(s, i + 1)>>

\* str.split(maxsplit=n): runs of whitespace separate, leading whitespace is
\* skipped, and after n splits the rest is kept whole (trailing whitespace included)
RECURSIVE SplitWsFrom(_, _, _, _)
SplitWsFrom(s, i, n, acc) ==
    LET j == Scan(s, i, Whitespace, FALSE)
        k == Scan(s, j, Whitespace, TRUE)
    IN  IF j > Len(s) THEN acc
        ELSE IF n = 0 THEN Append(acc, From(s, j))
        ELSE SplitWsFrom(s, k, n - 1, Append(acc, SubSeq(s, j, k - 1)))

SplitWs(s, maxsplit) ==
    SplitWsFrom(s, 1, maxsplit, <<>>)

\* sep.join(parts)
RECURSIVE Join(_, _)
Join(parts, sep) ==
    IF parts = <<>> THEN <<>>
    ELSE IF Len(parts) = 1 THEN parts[1]
    ELSE parts[1] \o sep \o Join(Tail(parts), sep)

\* str.splitlines(keepends=True), for the line boundary "\n": the lines of s[i..],
\* each with its line break
RECURSIVE SplitLinesFrom(_, _, _)
SplitLinesFrom(s, i, acc) ==
    LET k == Scan(s, i, {"\n"}, TRUE)
    IN  IF i > Len(s) THEN acc
        ELSE IF k > Len(s) THEN Append(acc, From(s, i))
        ELSE SplitLinesFrom(s, k + 1, Append(acc, SubSeq(s, i, k)))

\* splitlines() without keepends: the lines lose their line breaks
SplitLines_DropEnds(s) ==
    LET ls == SplitLinesFrom(s, 1, <<>>)
    IN  [k \in 1..Len(ls) |->
            IF ls[k][Len(ls[k])] = "\n" THEN SubSeq(ls[k], 1, Len(ls[k]) - 1) ELSE ls[k]]

SplitLines(s) ==
    SplitLinesFrom(s, 1, <<>>)

----------------------------------------------------------------------------
(* The texts of the program.                                               *)

CQHelpMessage ==
    <<"!", "!", "h", "e", "l", "p", ":", " ", "u663e", "u793a", "u672c", "u6761", "u5e2e",
      "u52a9", "u4fe1", "u606f", "\n", "!", "!", "p", "i", "n", "g", ":", " ", "p", "o", "n",
      "g", "!", "!", "\n", "!", "!", "m", "c", " ", "<", "u6d88", "u606f", ">", ":", " ",
      "u5411", " ", "M", "C", " ", "u4e2d", "u53d1", "u9001", "u804a", "u5929", "u4fe1",
      "u606f", " ", "<", "u6d88", "u606f", ">", "\n", "!", "!", "o", "n", "l", "i", "n", "e",
      ":", " ", "u663e", "u793a", "u5728", "u7ebf", "u5217", "u8868", "\n", "!", "!", "s", "t",
      "a", "t", "s", " ", "<", "u7c7b", "u522b", ">", " ", "<", "u5185", "u5bb9", ">", " ",
      "[", "<", "-", "b", "o", "t", ">", "]", ":", " ", "u67e5", "u8be2", "u7edf", "u8ba1",
      "u4fe1", "u606f", " ", "<", "u7c7b", "u522b", ">", ".", "<", "u5185", "u5bb9", ">", " ",
      "u7684", "u6392", "u540d">>

StatsHelpMessage ==
    <<"!", "!", "s", "t", "a", "t", "s", " ", "<", "u7c7b", "u522b", ">", " ", "<", "u5185",
      "u5bb9", ">", " ", "[", "<", "-", "b", "o", "t", ">", "]", "\n", "u6dfb", "u52a0", " ",
      "u0060", "-", "b", "o", "t", "u0060", " ", "u6765", "u5217", "u51fa", " ", "b", "o", "t", "\n",
      "u4f8b", "u5b50", ":", "\n", "!", "!", "s", "t", "a", "t", "s", " ", "u", "s", "e", "d",
      " ", "d", "i", "a", "m", "o", "n", "d", "_", "p", "i", "c", "k", "a", "x", "e", "\n",
      "!", "!", "s", "t", "a", "t", "s", " ", "c", "u", "s", "t", "o", "m", " ", "t", "i", "m",
      "e", "_", "s", "i", "n", "c", "e", "_", "r", "e", "s", "t", " ", "-", "b", "o", "t">>

OfflineNotice ==
    <<"C", "h", "a", "t", "B", "r", "i", "d", "g", "e", " ", "u5ba2", "u6237", "u7aef",
      "u79bb", "u7ebf">>

IllegalNameNotice ==
    <<"u975e", "u6cd5", "u7684", "u7528", "u6237", "u540d", "uff01">>

RejectNotice ==
    <<"u547d", "u4ee4", "u6267", "u884c", "u5931", "u8d25", "uff1a", "u683c", "u5f0f", "u9519",
      "u8bef", "u6216", "u6743", "u9650", "u4e0d", "u8db3">>

Pong ==
    <<"p", "o", "n", "g", "!", "!">>

UnsupportedFormat ==
    <<"[", "u4e0d", "u652f", "u6301", "u7684", "u6d88", "u606f", "u683c", "u5f0f", "]">>

StatsNotFound ==
    <<"u7edf", "u8ba1", "u4fe1", "u606f", "u672a", "u627e", "u5230">>

StatsNotLoaded ==
    <<"S", "t", "a", "t", "s", "H", "e", "l", "p", "e", "r", " ", "u63d2", "u4ef6", "u672a",
      "u52a0", "u8f7d">>

CommandExecuted ==
    <<"u547d", "u4ee4", "u5df2", "u6267", "u884c">>

ServerNotRunning ==
    <<"M", "i", "n", "e", "c", "r", "a", "f", "t", "u670d", "u52a1", "u5668", "u672a", "u5728",
      "u8fd0", "u884c", "uff0c", "u8bf7", "u7a0d", "u540e", "u518d", "u8bd5">>

OnlineHeader ==
    <<"=", "=", "=", "=", "=", "=", " ", "u73a9", "u5bb6", "u5217", "u8868", " ", "=", "=",
      "=", "=", "=", "=", "\n">>

TotalLabel ==
    <<"u603b", "u6570", "uff1a">>

StatsRule ==
    <<"=", "=", "=", "=", "=", "=">>

CmdHelp ==
    <<"!", "!", "h", "e", "l", "p">>

CmdPing ==
    <<"!", "!", "p", "i", "n", "g">>

CmdOnline ==
    <<"!", "!", "o", "n", "l", "i", "n", "e">>

CmdStats ==
    <<"!", "!", "s", "t", "a", "t", "s">>

CmdKillbot ==
    <<"!", "!", "k", "i", "l", "l", "b", "o", "t">>

CmdMc ==
    <<"!", "!", "m", "c">>

CmdQq ==
    <<"!", "!", "q", "q">>

BangBang ==
    <<"!", "!">>

StatsPrefix ==
    <<"!", "!", "s", "t", "a", "t", "s", " ">>

StatsRankPrefix ==
    <<"!", "!", "s", "t", "a", "t", "s", " ", "r", "a", "n", "k", " ">>

BotFlag ==
    <<"-", "b", "o", "t">>

AliasOfflineZh ==
    <<"u79bb", "u7ebf">>

AliasOffline ==
    <<"o", "f", "f", "l", "i", "n", "e">>

AliasWhitelistZh ==
    <<"u767d", "u540d", "u5355">>

AliasWhitelist ==
    <<"w", "h", "i", "t", "e", "l", "i", "s", "t">>

AuthCmdPrefix ==
    <<"a", "u", "t", "h", " ", "a", "d", "d", "T", "o", "F", "o", "r", "c", "e", "d", "O", "f",
      "f", "l", "i", "n", "e", " ">>

WhitelistCmdPrefix ==
    <<"w", "h", "i", "t", "e", "l", "i", "s", "t", " ", "a", "d", "d", " ">>

KillPrefix ==
    <<"p", "l", "a", "y", "e", "r", " ">>

KillSuffix ==
    <<" ", "k", "i", "l", "l">>

CqOpen ==
    <<"[", "C", "Q", ":">>

EntAmp ==
    <<"&", "a", "m", "p", ";">>

EntLt ==
    <<"&", "l", "t", ";">>

EntGt ==
    <<"&", "g", "t", ";">>

EntLBr ==
    <<"&", "#", "9", "1", ";">>

EntRBr ==
    <<"&", "#", "9", "3", ";">>

EntComma ==
    <<"&", "#", "4", "4", ";">>

WSteve ==
    <<"S", "t", "e", "v", "e">>

WBadName ==
    <<"a", "-", "b">>

WTwoWords ==
    <<"l", "i", "s", "t", " ", "n", "o", "w">>

WServer ==
    <<"s", "m", "p">>

WTarget ==
    <<"t", "a", "r", "g", "e", "t">>

WTen ==
    <<"1", "0">>

WTwo ==
    <<"2">>

WHi ==
    <<"h", "i">>

WThere ==
    <<"t", "h", "e", "r", "e">>

WUsed ==
    <<"u", "s", "e", "d">>

WInnerBot ==
    <<"a", "-", "b", "o", "t">>

WFace ==
    <<"[", "C", "Q", ":", "f", "a", "c", "e", ",", "i", "d", "=", "1", "]">>

WEscaped ==
    <<"&", "#", "9", "1", ";", "C", "Q", ":", "a", "t", "&", "#", "9", "3", ";">>

WAmp ==
    <<"a", "&", "a", "m", "p", ";", "b">>

WOfflineCaps ==
    <<"O", "f", "f", "l", "i", "n", "e">>

WFoo ==
    <<"f", "o", "o">>

WBot ==
    <<"b", "o", "t">>

\* the words of the join and leave notices, with the spaces of the pattern
JoinedWord ==
    <<" ", "j", "o", "i", "n", "e", "d", " ">>

LeftWord ==
    <<" ", "l", "e", "f", "t", " ">>

\* what the remote side says
WJoined ==
    <<"S", "t", "e", "v", "e", " ", "j", "o", "i", "n", "e", "d", " ", "t", "h", "e", " ", "g",
      "a", "m", "e">>

WLeft ==
    <<"S", "t", "e", "v", "e", " ", "l", "e", "f", "t", " ", "t", "h", "e", " ", "g", "a", "m",
      "e">>

WJoinedBare ==
    <<"j", "o", "i", "n", "e", "d", " ", "t", "h", "e", " ", "g", "a", "m", "e">>

WWeLeft ==
    <<"w", "e", " ", "l", "e", "f", "t", " ", "e", "a", "r", "l", "y">>

WOnlineCmd ==
    <<"!", "!", "o", "n", "l", "i", "n", "e">>

WQqx ==
    <<"!", "!", "q", "q", "x", " ", "h", "i">>

\* a chat line of exactly nine characters
WNine ==
    <<"h", "i", " ", "t", "h", "e", "r", "e", "!">>

\* a chat line of thirteen characters
WLongLine ==
    <<"h", "i", " ", "t", "h", "e", "r", "e", ",", " ", "a", "l", "l">>

WAl ==
    <<"A", "l">>

WBo ==
    <<"B", "o">>

----------------------------------------------------------------------------
(* TextPipeline: CQBot.send_text, html.unescape and the rich-content       *)
(* substitution of on_message.                                             *)

\* the chunk limit of send_text
ChunkLimit ==
    500

\* the loop cutting a segment only once it has grown past the limit
RECURSIVE SendTextFrom_LateCut(_, _, _, _, _)
SendTextFrom_LateCut(lines, i, msg, length, sent) ==
    IF i > Len(lines) THEN sent
    ELSE LET m == msg \o lines[i]
             l == length + Len(lines[i])
         IN  IF i = Len(lines) \/ l > ChunkLimit
             THEN SendTextFrom_LateCut(lines, i + 1, <<>>, 0, Append(sent, m))
             ELSE SendTextFrom_LateCut(lines, i + 1, m, l, sent)

\* the loop of send_text over lines[i..]: msg and length are the segment being
\* accumulated, sent the texts handed to _send_text so far
RECURSIVE SendTextFrom(_, _, _, _, _)
SendTextFrom(lines, i, msg, length, sent) ==
    IF i > Len(lines) THEN sent
    ELSE LET m == msg \o lines[i]
             l == length + Len(lines[i])
         IN  IF i = Len(lines) \/ l + Len(lines[i + 1]) > ChunkLimit
             THEN SendTextFrom(lines, i + 1, <<>>, 0, Append(sent, m))
             ELSE SendTextFrom(lines, i + 1, m, l, sent)

\* CQBot.send_text(text): the sequence of texts handed to _send_text
send_text(text) ==
    SendTextFrom(SplitLines(RStrip(text)), 1, <<>>, 0, <<>>)

\* \w of the pattern
WordChars ==
    AsciiWord \cup Ideographs

\* the character references html.unescape resolves, among those the chat platform
\* uses to escape its own syntax; inputs hold no other reference
CharRefs ==
    { <<EntAmp, "&">>, <<EntLt, "<">>, <<EntGt, ">">>,
      <<EntLBr, "[">>, <<EntRBr, "]">>, <<EntComma, ",">> }

\* html.unescape: one pass from the left, a resolved reference is not rescanned
RECURSIVE UnescapeFrom(_, _, _)
UnescapeFrom(s, i, acc) ==
    IF i > Len(s) THEN acc
    ELSE IF \E r \in CharRefs : StartsAt(s, i, r[1])
    THEN LET r == CHOOSE r \in CharRefs : StartsAt(s, i, r[1])
         IN  UnescapeFrom(s, i + Len(r[1]), Append(acc, r[2]))
    ELSE UnescapeFrom(s, i + 1, Append(acc, s[i]))

html_unescape(s) ==
    UnescapeFrom(s, 1, <<>>)

\* a match of \[CQ:(\w+)(,(\w+)=(.*?))*] starting at index i: the index of its closing
\* bracket, 0 when there is no match.  After the type comes "]" or a first parameter
\* ",name=" whose lazy value runs to the first "]" of the line.
CqMatchEnd(s, i) ==
    IF ~StartsAt(s, i, CqOpen) THEN 0
    ELSE LET t  == i + Len(CqOpen)
             te == Scan(s, t, WordChars, FALSE)
         IN  IF te = t \/ te > Len(s) THEN 0
             ELSE IF s[te] = "]" THEN te
             ELSE IF s[te] # "," THEN 0
             ELSE LET n  == te + 1
                      ne == Scan(s, n, WordChars, FALSE)
                      cl == Scan(s, ne + 1, {"]", "\n"}, TRUE)
                  IN  IF ne = n \/ ne > Len(s) THEN 0
                      ELSE IF s[ne] # "=" THEN 0
                      ELSE IF cl > Len(s) THEN 0
                      ELSE IF s[cl] = "\n" THEN 0
                      ELSE cl

\* re.sub(pattern, "[unsupported]", text): leftmost matches, not overlapping
RECURSIVE SubCqFrom(_, _, _)
SubCqFrom(s, i, acc) ==
    IF i > Len(s) THEN acc
    ELSE LET e == CqMatchEnd(s, i)
         IN  IF e > 0 THEN SubCqFrom(s, e + 1, acc \o UnsupportedFormat)
             ELSE SubCqFrom(s, i + 1, Append(acc, s[i]))

sanitizeRichContent(text) ==
    SubCqFrom(text, 1, <<>>)

\* utils.is_valid_minecraft_username: non-empty, bounded length, letters, digits
\* and underscore only
MaxUsernameLen ==
    16

is_valid_minecraft_username(name) ==
    /\ Len(name) \in 1..MaxUsernameLen
    /\ \A i \in 1..Len(name) : name[i] \in AsciiWord

----------------------------------------------------------------------------
(* State.                                                                  *)

VARIABLES
    config,      \* CqHttpConfig, loaded once by main()
    chatClient,  \* the global chatClient: "None" or "client"
    cq_bot,      \* the global cq_bot: "None" or "bot"
    online,      \* what chatClient.is_online() answers
    storage,     \* rate_storage: tokens left per key, shared by both limiters
    event,       \* the event the transport loop has just had handled, or NoEvent
    effect,      \* what handling that event did
    connected,   \* whether the chat-room socket of cq_bot is open: send() raises if not
    main_pc,     \* how far main() has got
    inflight,    \* the commands sent over the remote link and not answered yet
    threads,     \* per router thread, where it is inside Limiter.consume and what it read
    ledger       \* per key, the tokens granted and the messages let through so far

vars ==
    <<config, chatClient, cq_bot, online, storage, event, effect,
      connected, main_pc, inflight, threads, ledger>>

\* the variables only the start-up and the interleaving specifications change
startVars ==
    <<main_pc, inflight>>

raceVars ==
    <<threads, ledger>>

\* params of send_command: {"IsQQ": True, "Type": kind}; None when not given
Params(kind) ==
    [IsQQ |-> TRUE, Type |-> kind]

NoParams ==
    [IsQQ |-> FALSE, Type |-> "None"]

\* what one handler call did: the texts handed to _send_text, the send_command and
\* send_chat calls, the keys consume() was called on, the warnings logged, and
\* whether an exception was raised: "no", "caught" by the handler's except clause
\* and logged, or "propagated" to the caller
Quiet ==
    [sent |-> <<>>, commands |-> <<>>, chats |-> <<>>, consumed |-> <<>>,
     warnings |-> <<>>, raised |-> "no"]

Reply(text) ==
    [Quiet EXCEPT !.sent = send_text(text)]

Command(client, command, params) ==
    [Quiet EXCEPT !.commands = <<[client |-> client, command |-> command, params |-> params]>>]

\* an exception is raised: what the handler did so far stands
Raise(eff) ==
    [eff EXCEPT !.raised = "raised"]

\* _send_text hands each text to self.send, which raises when the socket is closed:
\* the first text of a reply is the first thing a handler sends
Transmit(isOpen, eff) ==
    IF eff.sent # <<>> /\ ~isOpen THEN Raise([eff EXCEPT !.sent = <<>>]) ELSE eff

\* the handlers without their except clause: the exception leaves the handler
ExceptClause_Missing(eff) ==
    IF eff.raised = "raised" THEN [eff EXCEPT !.raised = "propagated"] ELSE eff

\* the bare except of on_message and on_chat: log the exception and return
ExceptClause(eff) ==
    IF eff.raised = "raised" THEN [eff EXCEPT !.raised = "caught"] ELSE eff

\* no handler around the call: the exception reaches the caller
Uncaught(eff) ==
    IF eff.raised = "raised" THEN [eff EXCEPT !.raised = "propagated"] ELSE eff

\* a step of on_message that returned, and one that fell through to the next step
Return(eff, store) ==
    [returned |-> TRUE, effect |-> eff, storage |-> store]

FallThrough ==
    [returned |-> FALSE]

----------------------------------------------------------------------------
(* AccessPolicy and RateGate.                                              *)

\* the access gate with admins let through whatever the lists say
QQAllowed_AdminBypass(cfg, user_id) ==
    \/ user_id \in cfg.admin
    \/ IF cfg.qq_whitelist THEN user_id \in cfg.qq_list ELSE user_id \notin cfg.qq_list

\* on_message's access gate: qq_whitelist selects whitelist or blacklist semantics
QQAllowed(cfg, user_id) ==
    IF cfg.qq_whitelist THEN user_id \in cfg.qq_list ELSE user_id \notin cfg.qq_list

\* the admin test with the membership check lost
IsAdmin_Everyone(cfg, user_id) ==
    TRUE

\* int(data['user_id']) in self.config.admin
IsAdmin(cfg, user_id) ==
    user_id \in cfg.admin

\* Limiter.consume(key): take one token of the key's bucket if there is one
CanConsume(store, key) ==
    store[key] >= 1

Consume(store, key) ==
    IF CanConsume(store, key) THEN [store EXCEPT ![key] = @ - 1] ELSE store

----------------------------------------------------------------------------
(* ChatRoomRouter: CQBot.on_message.                                       *)

\* the command sent and acknowledged in the chat-room at once
SendIfOnline_AlsoAcks(isOnline, client, command, params) ==
    IF isOnline
    THEN [Command(client, command, params) EXCEPT !.sent = send_text(CommandExecuted)]
    ELSE Reply(OfflineNotice)

\* chatClient.is_online() ... send_command(...) else send_text(offline notice)
SendIfOnline(isOnline, client, command, params) ==
    IF isOnline THEN Command(client, command, params) ELSE Reply(OfflineNotice)

\* `if chatClient.is_online:` of the !!stats step tests the bound method itself,
\* which is always truthy
BoundMethodTruth ==
    TRUE

\* the registration and whitelist branches: validate cmd[2].strip(), then send the
\* synthesized command to cmd[1]
ManagementCommand(isOnline, cmd, prefix) ==
    LET u_name == Strip(cmd[3])
    IN  IF ~is_valid_minecraft_username(u_name) THEN Reply(IllegalNameNotice)
        ELSE SendIfOnline(isOnline, cmd[2], prefix \o u_name, Params("Vanilla"))

\* the branches under len(cmd) > 2: cmd is 1-based here, cmd[1] is the code's cmd[0]
PrivilegedBranch(cfg, isOnline, user_id, cmd, store) ==
    IF IsAdmin(cfg, user_id)
    THEN IF cmd[1] = <<"/">>
         THEN Return(SendIfOnline(isOnline, cmd[2], cmd[3], Params("Vanilla")), store)
         ELSE IF cmd[1] = <<"!">>
         THEN Return(SendIfOnline(isOnline, cmd[2], cmd[3], Params("MCDR")), store)
         ELSE FallThrough
    ELSE IF /\ Lower(cmd[1]) \in {AliasOfflineZh, AliasOffline}
            /\ (IsAdmin(cfg, user_id) \/ cfg.allow_easyauth_offline_reg_for_everyone)
    THEN Return(ManagementCommand(isOnline, cmd, AuthCmdPrefix), store)
    ELSE IF /\ Lower(cmd[1]) \in {AliasWhitelistZh, AliasWhitelist}
            /\ (IsAdmin(cfg, user_id) \/ cfg.allow_whitelist_for_everyone)
    THEN Return(ManagementCommand(isOnline, cmd, WhitelistCmdPrefix), store)
    ELSE Return(Reply(RejectNotice), store)

\* the tokens split without maxsplit: the command is cut at its first space
PrivilegedTokens_NoMaxsplit(raw) ==
    SplitWs(Strip(From(raw, 2)), -1)

\* raw_message[1:].strip().split(maxsplit=2)
PrivilegedTokens(raw) ==
    SplitWs(Strip(From(raw, 2)), 2)

\* the privileged command gate: raw_message.strip().startswith("#") and len(cmd) > 2
IsPrivilegedLine(raw) ==
    /\ StartsWith(Strip(raw), <<"#">>)
    /\ Len(PrivilegedTokens(raw)) > 2

PrivilegedGate(cfg, isOnline, user_id, raw, store) ==
    IF IsPrivilegedLine(raw)
    THEN PrivilegedBranch(cfg, isOnline, user_id, PrivilegedTokens(raw), store)
    ELSE FallThrough

\* len(args) == 1: !!help, !!ping, !!online
FixedCommands(cfg, isOnline, args, store) ==
    IF Len(args) # 1 THEN FallThrough
    ELSE IF args[1] = CmdHelp THEN Return(Reply(CQHelpMessage), store)
    ELSE IF args[1] = CmdPing THEN Return(Reply(Pong), store)
    ELSE IF args[1] = CmdOnline
    THEN Return(SendIfOnline(isOnline, cfg.client_to_query_online, args[1], NoParams), store)
    ELSE FallThrough

\* '!!stats rank ' + ' '.join(args[1:])
StatsCommandString(args) ==
    StatsRankPrefix \o Join(Tail(args), <<" ">>)

\* len(args) == 0 or len(args) - int(command.find('-bot') != -1) != 3
StatsArityMismatch(args) ==
    \/ Len(args) = 0
    \/ Len(args) - (IF Contains(StatsCommandString(args), BotFlag) THEN 1 ELSE 0) # 3

StatsCommand(cfg, isOnline, args, store) ==
    IF ~(Len(args) >= 1 /\ args[1] = CmdStats) THEN FallThrough
    ELSE IF StatsArityMismatch(args) THEN Return(Reply(StatsHelpMessage), store)
    ELSE Return(SendIfOnline(BoundMethodTruth, cfg.client_to_query_stats,
                             StatsCommandString(args), NoParams), store)

\* len(args) == 3 and args[0] == '!!killbot'
KillbotCommand(isOnline, args, store) ==
    IF ~(Len(args) = 3 /\ args[1] = CmdKillbot) THEN FallThrough
    ELSE Return(SendIfOnline(isOnline, args[2], KillPrefix \o args[3] \o KillSuffix,
                             Params("Vanilla")), store)

\* the sender name: the group card, the nickname when the card is empty
SenderName(sender) ==
    IF Len(sender.card) = 0 THEN sender.nickname ELSE sender.card

\* the text to relay: the whole message under auto-forward, else what follows the
\* first space; unescaped, then rich content replaced
RelayText(cfg, raw) ==
    sanitizeRichContent(
        html_unescape(IF cfg.qq_to_mc_auto THEN raw ELSE SplitSepOnce(raw, " ")[2]))

\* the cap with a text of exactly max_length characters dropped too
truncationCheck_AtLimit(text, maxLen) ==
    0 < maxLen /\ maxLen <= Len(text)

\* 0 < max_length < len(text)
truncationCheck(text, maxLen) ==
    0 < maxLen /\ maxLen < Len(text)

\* the rate gate without the admin exemption
RateGated_AdminsToo(cfg, user_id) ==
    cfg.qq_limiter

\* whether the free-text step asks the limiter at all: not for an admin, not with
\* the limiter disabled
RateGated(cfg, user_id) ==
    ~IsAdmin(cfg, user_id) /\ cfg.qq_limiter

\* the free-text relay step with the length test put before the rate gate
FreeTextRelay_CapFirst(cfg, data, args, store) ==
    IF ~(cfg.qq_to_mc_auto \/ (Len(args) >= 2 /\ args[1] = CmdMc)) THEN FallThrough
    ELSE IF truncationCheck(RelayText(cfg, data.raw_message), cfg.qq_max_length)
    THEN Return([Quiet EXCEPT !.warnings = <<"length">>], store)
    ELSE IF RateGated(cfg, data.user_id) /\ ~CanConsume(store, "qq")
    THEN Return([Quiet EXCEPT !.consumed = <<"qq">>, !.warnings = <<"rate">>], store)
    ELSE Return([Quiet EXCEPT !.consumed = IF RateGated(cfg, data.user_id) THEN <<"qq">>
                                           ELSE <<>>,
                              !.chats = <<[message |-> RelayText(cfg, data.raw_message),
                                           author |-> SenderName(data.sender)]>>],
                IF RateGated(cfg, data.user_id) THEN Consume(store, "qq") ELSE store)

\* the free-text relay step; data['sender'] raises on an event without that key,
\* after the limiter was asked
FreeTextRelay(cfg, data, args, store) ==
    IF ~(cfg.qq_to_mc_auto \/ (Len(args) >= 2 /\ args[1] = CmdMc)) THEN FallThrough
    ELSE IF RateGated(cfg, data.user_id) /\ ~CanConsume(store, "qq")
    THEN Return([Quiet EXCEPT !.consumed = <<"qq">>, !.warnings = <<"rate">>], store)
    ELSE LET asked  == IF RateGated(cfg, data.user_id) THEN <<"qq">> ELSE <<>>
             store2 == IF RateGated(cfg, data.user_id) THEN Consume(store, "qq") ELSE store
             text   == RelayText(cfg, data.raw_message)
         IN  IF "sender" \notin DOMAIN data
             THEN Return(Raise([Quiet EXCEPT !.consumed = asked]), store2)
             ELSE IF truncationCheck(text, cfg.qq_max_length)
             THEN Return([Quiet EXCEPT !.consumed = asked, !.warnings = <<"length">>], store2)
             ELSE Return([Quiet EXCEPT !.consumed = asked,
                                       !.chats = <<[message |-> text,
                                                    author |-> SenderName(data.sender)]>>],
                         store2)

\* data.get(key): None when the key is missing
Get(data, key) ==
    IF key \in DOMAIN data THEN data[key] ELSE "None"

\* the steps of on_message behind the access gate, in the order of the code, each
\* either returning or falling through to the next; an event no step takes is dropped
RouteMessage(cfg, isOnline, store, data) ==
    LET args == SplitSep(data.raw_message, " ")
        priv == PrivilegedGate(cfg, isOnline, data.user_id, data.raw_message, store)
        fixd == FixedCommands(cfg, isOnline, args, store)
        stat == StatsCommand(cfg, isOnline, args, store)
        kill == KillbotCommand(isOnline, args, store)
        free == FreeTextRelay(cfg, data, args, store)
    IN  IF priv.returned THEN priv
        ELSE IF fixd.returned THEN fixd
        ELSE IF stat.returned THEN stat
        ELSE IF kill.returned THEN kill
        ELSE IF free.returned THEN free
        ELSE Return(Quiet, store)

\* the body of on_message's try block: json.loads raises on a message that is not
\* JSON, data['anonymous'] on an event without that key
MessageBody(cfg, client, isOnline, store, data) ==
    IF client = "None" THEN Return(Quiet, store)
    ELSE IF "undecodable" \in DOMAIN data THEN Return(Raise(Quiet), store)
    ELSE IF ~(Get(data, "post_type") = "message" /\ Get(data, "message_type") = "group")
    THEN Return(Quiet, store)
    ELSE IF "anonymous" \notin DOMAIN data THEN Return(Raise(Quiet), store)
    ELSE IF ~(~data.anonymous /\ data.group_id = cfg.react_group_id)
    THEN Return(Quiet, store)
    ELSE IF ~QQAllowed(cfg, data.user_id) THEN Return(Quiet, store)
    ELSE RouteMessage(cfg, isOnline, store, data)

\* CQBot.on_message: the try block, the socket the replies go out on, the except
\* clause
on_message(cfg, client, isOnline, isOpen, store, data) ==
    LET r == MessageBody(cfg, client, isOnline, store, data)
    IN  Return(ExceptClause(Transmit(isOpen, r.effect)), r.storage)

----------------------------------------------------------------------------
(* RemoteRouter: CqHttpChatBridgeClient.on_chat.                           *)

\* on_chat's access gate: mc_whitelist selects whitelist or blacklist semantics
McAllowed(cfg, author) ==
    IF cfg.mc_whitelist THEN author \in cfg.mc_list ELSE author \notin cfg.mc_list

\* every message taken for plain chat, the chat commands too
IsChatCommand_Never(message) ==
    FALSE

\* payload.message.strip().startswith('!!')
IsChatCommand(message) ==
    StartsWith(Strip(message), BangBang)

\* re.match(r'.+ (joined|left) .+', s): from the start of s, at least one character,
\* the word between spaces, at least one character; "." matches no line break
JoinLeaveNotice(s) ==
    \E w \in {JoinedWord, LeftWord} :
        \E i \in 2..Len(s) :
            /\ StartsAt(s, i, w)
            /\ \A k \in 1..(i - 1) : s[k] # "\n"
            /\ i + Len(w) <= Len(s)
            /\ s[i + Len(w)] # "\n"

\* ChatPayload.formatted_str(): '<author> message', the message alone without author
formatted_str(author, message) ==
    IF author = <<>> THEN message ELSE <<"<">> \o author \o <<">", " ">> \o message

\* CQBot.send_message(sender, message): send_text('[{}] {}'.format(sender, message))
send_message(sender, message) ==
    Reply(<<"[">> \o sender \o <<"]", " ">> \o message)

\* what both paths of on_chat do with a message to relay: the rate gate, the
\* formatted text, the length cap, the send
RelayToChatRoom(cfg, store, sender, author, message) ==
    IF cfg.mc_limiter /\ ~CanConsume(store, "mc")
    THEN Return([Quiet EXCEPT !.consumed = <<"mc">>, !.warnings = <<"rate">>], store)
    ELSE LET asked  == IF cfg.mc_limiter THEN <<"mc">> ELSE <<>>
             store2 == IF cfg.mc_limiter THEN Consume(store, "mc") ELSE store
             text   == formatted_str(author, message)
         IN  IF truncationCheck(text, cfg.mc_max_length)
             THEN Return([Quiet EXCEPT !.consumed = asked, !.warnings = <<"length">>], store2)
             ELSE Return([send_message(sender, text) EXCEPT !.consumed = asked], store2)

\* the join and leave filter placed behind the rate gate
AutoForward_GateFirst(cfg, store, sender, payload) ==
    LET r == RelayToChatRoom(cfg, store, sender, payload.author, payload.message)
    IN  IF (~cfg.forward_join_message) /\ JoinLeaveNotice(Strip(payload.message))
        THEN Return([Quiet EXCEPT !.consumed = r.effect.consumed], r.storage)
        ELSE r

\* the auto-forward path: the join and leave filter, then the relay
AutoForward(cfg, store, sender, payload) ==
    IF (~cfg.forward_join_message) /\ JoinLeaveNotice(Strip(payload.message))
    THEN Return(Quiet, store)
    ELSE RelayToChatRoom(cfg, store, sender, payload.author, payload.message)

\* the explicit path: prefix, message = payload.message.split(' ', 1), which raises
\* into `except: pass` without a space; '!!qq' relays what follows it
ExplicitRelay(cfg, store, sender, payload) ==
    LET parts == SplitSepOnce(payload.message, " ")
    IN  IF Len(parts) = 2 /\ parts[1] = CmdQq
        THEN RelayToChatRoom(cfg, store, sender, payload.author, parts[2])
        ELSE Return(Quiet, store)

\* the body of on_chat's try block
ChatBody(cfg, store, sender, payload) ==
    IF ~McAllowed(cfg, payload.author) THEN Return(Quiet, store)
    ELSE IF cfg.mc_to_qq_auto /\ ~IsChatCommand(payload.message)
    THEN AutoForward(cfg, store, sender, payload)
    ELSE ExplicitRelay(cfg, store, sender, payload)

\* the test of the global lost: on_chat goes on without a bot
BotMissing_Unchecked(bot) ==
    FALSE

\* cq_bot is None
BotMissing(bot) ==
    bot = "None"

\* a method called on cq_bot: AttributeError while cq_bot is None
OnBot(bot, eff) ==
    IF eff.sent # <<>> /\ bot = "None" THEN Raise([eff EXCEPT !.sent = <<>>]) ELSE eff

\* CqHttpChatBridgeClient.on_chat: the test of cq_bot, the try block, the socket,
\* the except clause
on_chat(cfg, bot, isOpen, store, sender, payload) ==
    IF BotMissing(bot) THEN Return(Quiet, store)
    ELSE LET r == ChatBody(cfg, store, sender, payload)
         IN  Return(ExceptClause(Transmit(isOpen, OnBot(bot, r.effect))), r.storage)

----------------------------------------------------------------------------
(* CommandResultFormatter: CqHttpChatBridgeClient.on_command.              *)

\* str(n) for n >= 0
RECURSIVE Decimal(_)
Decimal(n) ==
    LET d == <<"0", "1", "2", "3", "4", "5", "6", "7", "8", "9">>[(n % 10) + 1]
    IN  IF n < 10 THEN <<d>> ELSE Append(Decimal(n \div 10), d)

\* '====== {} ======'.format(stats_name), the rows, '总数：{}'.format(total)
StatsLines(result) ==
    <<StatsRule \o <<" ">> \o result.stats_name \o <<" ">> \o StatsRule>>
        \o result.data \o <<TotalLabel \o Decimal(result.total)>>

\* the origin test lost: every other result is acknowledged
OriginMarked_Ignored(payload) ==
    TRUE

\* payload.params.get("IsQQ")
OriginMarked(payload) ==
    payload.params.IsQQ

RenderResult(payload) ==
    IF ~payload.responded THEN Quiet
    ELSE IF StartsWith(payload.command, StatsPrefix)
    THEN IF payload.result.success THEN Reply(Join(StatsLines(payload.result), <<"\n">>))
         ELSE IF payload.result.error_code = 1 THEN Reply(StatsNotFound)
         ELSE IF payload.result.error_code = 2 THEN Reply(StatsNotLoaded)
         ELSE Quiet
    ELSE IF payload.command = CmdOnline
    THEN Reply(OnlineHeader \o Join(payload.result.data, <<"\n">>))
    ELSE IF OriginMarked(payload)
    THEN Reply(IF payload.result.success THEN CommandExecuted ELSE ServerNotRunning)
    ELSE Quiet

\* CqHttpChatBridgeClient.on_command: no test of cq_bot and no try block around the
\* calls of cq_bot.send_text
on_command(bot, isOpen, payload) ==
    Uncaught(Transmit(isOpen, OnBot(bot, RenderResult(payload))))

----------------------------------------------------------------------------
(* Inputs: configurations, chat-room events, command payloads.             *)

\* capacity of a limiter's bucket (qq_limiter_capacity, mc_limiter_capacity)
Capacity ==
    1

\* how many tokens follow !!stats at most in the events drawn
MaxStatsArgs ==
    3

ReactGroup ==
    "relay-group"

Keys ==
    {"qq", "mc"}

\* the chat-room side of CqHttpConfig; user 1 is the admin
Configs ==
    [react_group_id : {ReactGroup},
     qq_whitelist : BOOLEAN,
     qq_list : {{}, {1}},
     admin : {{1}},
     allow_easyauth_offline_reg_for_everyone : BOOLEAN,
     allow_whitelist_for_everyone : BOOLEAN,
     client_to_query_online : {WServer},
     client_to_query_stats : {WServer},
     qq_to_mc_auto : BOOLEAN,
     qq_limiter : BOOLEAN,
     qq_max_length : {0, 9}]

\* the group members: one with a group card, one without
Senders ==
    { [user_id |-> 1, card |-> WAl, nickname |-> WAl],
      [user_id |-> 2, card |-> <<>>, nickname |-> WBo] }

\* all sequences over S of length at most n
RECURSIVE SeqsUpTo(_, _)
SeqsUpTo(S, n) ==
    IF n = 0 THEN {<<>>}
    ELSE LET shorter == SeqsUpTo(S, n - 1)
         IN  shorter \cup {Append(t, x) : t \in shorter, x \in S}

\* lines with the privileged prefix: "#", operator or alias, target, rest
PrivilegedLines ==
    { pre \o op \o <<" ">> \o WServer \o rest :
        pre \in {<<"#">>, <<"#", " ">>, <<" ", "#">>},
        op \in {<<"/">>, <<"!">>, AliasOfflineZh, WOfflineCaps, AliasWhitelistZh,
                AliasWhitelist, WFoo},
        rest \in {<<>>, <<" ">> \o WSteve, <<" ">> \o WSteve \o <<" ">>,
                  <<" ">> \o WBadName, <<" ">> \o WTwoWords} }
    \cup { <<"#", " ">> \o Join(<<WTarget, WTen, WTwo>>, <<" ">>),
           <<"#", " ">> \o Join(<<<<"/">>, WTarget, WTen, WTwo>>, <<" ">>) }

FixedLines ==
    { CmdHelp, CmdPing, CmdOnline, CmdOnline \o <<" ">>, CmdHelp \o <<" ">> \o WHi }

StatsMessages ==
    { Join(<<CmdStats>> \o a, <<" ">>) : a \in SeqsUpTo({WUsed, WInnerBot, BotFlag}, MaxStatsArgs) }
    \cup { CmdStats \o <<" ", " ">> \o WUsed \o <<" ">> \o WHi }

KillbotLines ==
    { Join(<<CmdKillbot>> \o a, <<" ">>) : a \in {<<WServer>>, <<WServer, WBot>>, <<WServer, WBot, WHi>>} }

ChatLines ==
    { <<>>, WHi, Join(<<WHi, WThere>>, <<" ">>), CmdMc, CmdMc \o <<" ">>,
      Join(<<CmdMc, WHi>>, <<" ">>), Join(<<CmdMc, WHi, WThere>>, <<" ">>),
      Join(<<WFace, WHi>>, <<" ">>), Join(<<CmdMc, WEscaped>>, <<" ">>), WAmp }

RawMessages ==
    PrivilegedLines \cup FixedLines \cup StatsMessages \cup KillbotLines \cup ChatLines

GroupMessage(sender, raw) ==
    [post_type |-> "message", message_type |-> "group", anonymous |-> FALSE,
     group_id |-> ReactGroup, user_id |-> sender.user_id, raw_message |-> raw,
     sender |-> [card |-> sender.card, nickname |-> sender.nickname]]

\* group messages of the relay group, and events the first two tests of on_message
\* turn away
QQEvents ==
    { GroupMessage(s, raw) : s \in Senders, raw \in RawMessages }
    \cup { [GroupMessage(s, raw) EXCEPT !.post_type = "notice"] :
             s \in Senders, raw \in {CmdPing} }
    \cup { [GroupMessage(s, raw) EXCEPT !.message_type = "private"] :
             s \in Senders, raw \in {CmdPing} }
    \cup { [GroupMessage(s, raw) EXCEPT !.anonymous = TRUE] :
             s \in Senders, raw \in {CmdPing, WHi} }
    \cup { [GroupMessage(s, raw) EXCEPT !.group_id = "other-group"] :
             s \in Senders, raw \in {CmdPing, WHi} }

NoEvent ==
    [handler |-> "none"]

\* how many rows a stats result, and how many players an online result, carries at most
MaxRows ==
    2

StatsResults ==
    { [success |-> TRUE, stats_name |-> WUsed \o <<".">> \o WHi, data |-> rows,
       total |-> 10 * Len(rows) + 2, error_code |-> 0] :
        rows \in SeqsUpTo({WSteve \o <<" ">> \o WTen, WAl \o <<" ">> \o WTwo}, MaxRows) }
    \cup { [success |-> FALSE, stats_name |-> <<>>, data |-> <<>>, total |-> 0,
            error_code |-> e] : e \in {1, 2, 3} }

OnlineResults ==
    { [data |-> players] : players \in SeqsUpTo({WSteve, WAl}, MaxRows) }

CommandResults ==
    { [success |-> s] : s \in BOOLEAN }

\* CommandPayload: requests of other clients (responded = False) and results
Payloads ==
    [command : {StatsRankPrefix \o WUsed \o <<" ">> \o WHi, StatsPrefix},
     params : {NoParams, Params("Vanilla")}, responded : BOOLEAN, result : StatsResults]
    \cup [command : {CmdOnline},
          params : {NoParams, Params("Vanilla")}, responded : BOOLEAN, result : OnlineResults]
    \cup [command : {Join(<<WTen, WTwo>>, <<" ">>), WhitelistCmdPrefix \o WSteve, CmdStats,
                     CmdOnline \o <<" ">>, KillPrefix \o WBot \o KillSuffix},
          params : {NoParams, Params("Vanilla"), Params("MCDR")}, responded : BOOLEAN,
          result : CommandResults]

----------------------------------------------------------------------------
(* Inputs of the remote side.                                              *)

\* the remote side of CqHttpConfig; with the whitelist Steve is let in and the
\* server's own messages (no author) are not, with the blacklist the reverse
RemoteConfigs ==
    [mc_whitelist : BOOLEAN,
     mc_list : {{WSteve}},
     mc_to_qq_auto : BOOLEAN,
     forward_join_message : BOOLEAN,
     mc_limiter : BOOLEAN,
     mc_max_length : {0, 10}]

\* the chat-room side held fixed while the remote side varies
ChatRoomDefaults ==
    CHOOSE c \in Configs : /\ c.qq_whitelist /\ c.qq_list = {1}
                           /\ c.allow_easyauth_offline_reg_for_everyone
                           /\ c.allow_whitelist_for_everyone
                           /\ c.qq_to_mc_auto /\ c.qq_limiter
                           /\ c.qq_max_length = 0

RemoteChatLines ==
    { <<>>, WHi, Join(<<WHi, WThere>>, <<" ">>), WNine, WLongLine,
      CmdQq, CmdQq \o <<" ">>, Join(<<CmdQq, WHi>>, <<" ">>),
      Join(<<CmdQq, WHi, WThere>>, <<" ">>), <<" ">> \o Join(<<CmdQq, WHi>>, <<" ">>),
      Join(<<CmdQq, WJoined>>, <<" ">>), WQqx, WOnlineCmd,
      WJoined, WLeft, <<" ">> \o WJoined \o <<" ">>, WJoinedBare, WWeLeft }

\* ChatPayload: the player's name, empty for what the server says itself
ChatPayloads ==
    [author : {WSteve, <<>>}, message : RemoteChatLines]

\* the names of the clients chat arrives from
ChatSenders ==
    {WServer}

\* everything constructed and running, no router inside consume, nothing sent yet
Running ==
    "running"

IdleThreads ==
    [k \in Keys |-> [pc |-> "idle"]]

FreshLedger ==
    [k \in Keys |-> [granted |-> Capacity, passed |-> 0]]

----------------------------------------------------------------------------
(* The chat-room router.                                                   *)

Init ==
    /\ config \in Configs
    /\ chatClient = "client"
    /\ cq_bot = "bot"
    /\ online = FALSE
    /\ storage = [k \in Keys |-> Capacity]
    /\ event = NoEvent
    /\ effect = Quiet
    /\ connected = TRUE
    /\ main_pc = Running
    /\ inflight = {}
    /\ threads = IdleThreads
    /\ ledger = FreshLedger

\* the transport hands one event to CQBot.on_message, which handles it; the bot's
\* loop runs once main() has started it.  What becomes of the commands sent is the
\* remote link's matter and is said where the action is used.
OnMessage(data) ==
    /\ event = NoEvent
    /\ main_pc = Running
    /\ LET r == on_message(config, chatClient, online, connected, storage, data)
       IN  /\ effect' = r.effect
           /\ storage' = r.storage
    /\ event' = [handler |-> "on_message", data |-> data]
    /\ UNCHANGED <<config, chatClient, cq_bot, online, connected, main_pc>>
    /\ UNCHANGED raceVars

\* the handler has returned to the transport's loop; the event is discarded.  A
\* handler an exception has left does not return to the loop.
HandlerReturns ==
    /\ event # NoEvent
    /\ effect.raised # "propagated"
    /\ event' = NoEvent
    /\ effect' = Quiet
    /\ UNCHANGED <<config, chatClient, cq_bot, online, storage, connected>>
    /\ UNCHANGED startVars
    /\ UNCHANGED raceVars

\* time passes and a bucket is replenished by one token
Replenish(key) ==
    /\ event = NoEvent
    /\ storage[key] < Capacity
    /\ storage' = [storage EXCEPT ![key] = @ + 1]
    /\ UNCHANGED <<config, chatClient, cq_bot, online, event, effect, connected>>
    /\ UNCHANGED startVars
    /\ UNCHANGED raceVars

\* the remote link connects or disconnects
LinkChanges ==
    /\ event = NoEvent
    /\ online' = ~online
    /\ UNCHANGED <<config, chatClient, cq_bot, storage, event, effect, connected>>
    /\ UNCHANGED startVars
    /\ UNCHANGED raceVars

Next ==
    \/ \E data \in QQEvents : OnMessage(data) /\ UNCHANGED inflight
    \/ HandlerReturns
    \/ \E key \in Keys : Replenish(key)
    \/ LinkChanges

Spec ==
    Init /\ [][Next]_vars

----------------------------------------------------------------------------
(* The remote router: chat and command results.                            *)

RemoteInit ==
    /\ config \in {ChatRoomDefaults @@ r : r \in RemoteConfigs}
    /\ chatClient = "client"
    /\ cq_bot = "bot"
    /\ online = TRUE
    /\ storage = [k \in Keys |-> Capacity]
    /\ event = NoEvent
    /\ effect = Quiet
    /\ connected = TRUE
    /\ main_pc = Running
    /\ inflight = {}
    /\ threads = IdleThreads
    /\ ledger = FreshLedger

\* the link's thread runs once main() has started it
LinkStarted ==
    main_pc \in {"guardian", "bot", Running}

\* the remote link hands one chat payload to on_chat, which handles it
OnChat(sender, payload) ==
    /\ event = NoEvent
    /\ LinkStarted
    /\ LET r == on_chat(config, cq_bot, connected, storage, sender, payload)
       IN  /\ effect' = r.effect
           /\ storage' = r.storage
    /\ event' = [handler |-> "on_chat", sender |-> sender, payload |-> payload]
    /\ UNCHANGED <<config, chatClient, cq_bot, online, connected>>
    /\ UNCHANGED startVars
    /\ UNCHANGED raceVars

\* the remote link hands one command payload to on_command, which handles it.  Which
\* payloads the link can hand over is said where the action is used.
OnCommand(payload) ==
    /\ event = NoEvent
    /\ LinkStarted
    /\ effect' = on_command(cq_bot, connected, payload)
    /\ event' = [handler |-> "on_command", payload |-> payload]
    /\ UNCHANGED <<config, chatClient, cq_bot, online, storage, connected, main_pc>>
    /\ UNCHANGED raceVars

RemoteNext ==
    \/ \E payload \in Payloads : OnCommand(payload) /\ UNCHANGED inflight
    \/ \E sender \in ChatSenders, payload \in ChatPayloads : OnChat(sender, payload)
    \/ HandlerReturns
    \/ \E key \in Keys : Replenish(key)

RemoteSpec ==
    RemoteInit /\ [][RemoteNext]_vars

----------------------------------------------------------------------------
(* Both routers on one bridge: free text in both directions, events that   *)
(* make a handler raise, and the chat-room socket opening and closing.     *)

\* everyone is let in on both sides; what varies is what governs free text
BridgeConfigs ==
    { q @@ r : q \in {c \in Configs : /\ ~c.qq_whitelist /\ c.qq_list = {}
                                       /\ ~c.allow_easyauth_offline_reg_for_everyone
                                       /\ ~c.allow_whitelist_for_everyone},
               r \in {c \in RemoteConfigs : c.mc_whitelist /\ c.forward_join_message} }

\* free text, among it lines of exactly qq_max_length characters, and one command
\* answered in the chat-room
RelayLines ==
    ChatLines \cup {WNine, Join(<<CmdMc, WNine>>, <<" ">>), WLongLine, CmdPing}

\* a message that is not JSON
Undecodable ==
    [undecodable |-> TRUE]

\* the platform's answer to a send_group_msg action: JSON without post_type
ActionEcho ==
    [status |-> "ok", retcode |-> 0]

\* the fields of a record other than those of the set drop
Without(rec, drop) ==
    [f \in DOMAIN rec \ drop |-> rec[f]]

\* events whose handling raises, and events dropped before any field is read
OddEvents ==
    { Undecodable, ActionEcho }
    \cup { Without(GroupMessage(s, raw), {"anonymous"}) : s \in Senders, raw \in {WHi} }
    \cup { Without(GroupMessage(s, raw), {"sender"}) : s \in Senders, raw \in {WHi, CmdPing} }

BridgeQQEvents ==
    { GroupMessage(s, raw) : s \in Senders, raw \in RelayLines } \cup OddEvents

BridgeInit ==
    /\ config \in BridgeConfigs
    /\ chatClient = "client"
    /\ cq_bot = "bot"
    /\ online = TRUE
    /\ storage = [k \in Keys |-> Capacity]
    /\ event = NoEvent
    /\ effect = Quiet
    /\ connected = TRUE
    /\ main_pc = Running
    /\ inflight = {}
    /\ threads = IdleThreads
    /\ ledger = FreshLedger

\* the chat-room socket closes, or the transport has it open again
SocketChanges ==
    /\ event = NoEvent
    /\ connected' = ~connected
    /\ UNCHANGED <<config, chatClient, cq_bot, online, storage, event, effect>>
    /\ UNCHANGED startVars
    /\ UNCHANGED raceVars

BridgeNext ==
    \/ \E data \in BridgeQQEvents : OnMessage(data) /\ UNCHANGED inflight
    \/ \E sender \in ChatSenders, payload \in ChatPayloads : OnChat(sender, payload)
    \/ HandlerReturns
    \/ \E key \in Keys : Replenish(key)
    \/ SocketChanges

BridgeSpec ==
    BridgeInit /\ [][BridgeNext]_vars

----------------------------------------------------------------------------
(* send_text on its own: texts of a few lines, short, at the limit, long.  *)

\* how many lines a text has at most
MaxLines ==
    3

\* the lengths of the lines, line breaks not counted
LineLengths ==
    {0, 1, 249, 250, 499, 500, 1200}

\* line k of a text is made of the k-th letter
LineLetters ==
    <<"a", "b", "c", "d", "e", "f">>

\* the texts: lines joined by line breaks, then nothing, a line break, or a space
Texts ==
    { Join([k \in 1..Len(lens) |-> [i \in 1..lens[k] |-> LineLetters[k]]], <<"\n">>) \o tail :
        lens \in SeqsUpTo(LineLengths, MaxLines), tail \in {<<>>, <<"\n">>, <<" ">>} }

ChunkInit ==
    /\ config = ChatRoomDefaults
    /\ chatClient = "client"
    /\ cq_bot = "bot"
    /\ online = TRUE
    /\ storage = [k \in Keys |-> Capacity]
    /\ event = NoEvent
    /\ effect = Quiet
    /\ connected = TRUE
    /\ main_pc = Running
    /\ inflight = {}
    /\ threads = IdleThreads
    /\ ledger = FreshLedger

\* some handler calls cq_bot.send_text(text)
SendText(text) ==
    /\ event = NoEvent
    /\ effect' = Transmit(connected, Reply(text))
    /\ event' = [handler |-> "send_text", text |-> text]
    /\ UNCHANGED <<config, chatClient, cq_bot, online, storage, connected>>
    /\ UNCHANGED startVars
    /\ UNCHANGED raceVars

ChunkNext ==
    \/ \E text \in Texts : SendText(text)
    \/ HandlerReturns

ChunkSpec ==
    ChunkInit /\ [][ChunkNext]_vars

----------------------------------------------------------------------------
(* The rate gate with both routers inside Limiter.consume at once: each    *)
(* read and each write of rate_storage is a step of its own.               *)

\* how many tokens a bucket is granted in all, the first Capacity included
MaxGranted ==
    3

\* the router threads: the bot's loop calling on_message, the link's calling on_chat
Threads ==
    {"qq", "mc"}

\* both routers asking for the same key
LimiterKey_Shared(thread) ==
    "qq"

\* qq_limiter.consume('qq') in on_message, mc_limiter.consume('mc') in on_chat
LimiterKey(thread) ==
    IF thread = "qq" THEN "qq" ELSE "mc"

\* whether the router's handler reaches its rate gate at all
ReachesGate(thread) ==
    IF thread = "qq" THEN \E s \in Senders : RateGated(config, s.user_id)
    ELSE config.mc_limiter

RaceInit ==
    /\ config = ChatRoomDefaults
                  @@ (CHOOSE r \in RemoteConfigs : /\ r.mc_whitelist /\ r.mc_to_qq_auto
                                                    /\ r.forward_join_message /\ r.mc_limiter
                                                    /\ r.mc_max_length = 0)
    /\ chatClient = "client"
    /\ cq_bot = "bot"
    /\ online = TRUE
    /\ storage = [k \in Keys |-> Capacity]
    /\ event = NoEvent
    /\ effect = Quiet
    /\ connected = TRUE
    /\ main_pc = Running
    /\ inflight = {}
    /\ threads = IdleThreads
    /\ ledger = FreshLedger

RaceFrame ==
    /\ UNCHANGED <<config, chatClient, cq_bot, online, event, effect, connected>>
    /\ UNCHANGED startVars

\* a router's handler arrives at its rate gate and calls Limiter.consume(key)
EnterConsume(t) ==
    /\ threads[t].pc = "idle"
    /\ ReachesGate(t)
    /\ threads' = [threads EXCEPT ![t] = [pc |-> "rep_read"]]
    /\ UNCHANGED <<storage, ledger>>
    /\ RaceFrame

\* storage.replenish reads the bucket
ReplenishRead(t) ==
    /\ threads[t].pc = "rep_read"
    /\ threads' = [threads EXCEPT ![t] = [pc |-> "rep_write", tokens |-> storage[LimiterKey(t)]]]
    /\ UNCHANGED <<storage, ledger>>
    /\ RaceFrame

\* ... and writes it back with what the time elapsed grants, capped at the capacity
ReplenishWrite(t, elapsed) ==
    /\ threads[t].pc = "rep_write"
    /\ LET key   == LimiterKey(t)
           level == IF threads[t].tokens + elapsed > Capacity THEN Capacity
                    ELSE threads[t].tokens + elapsed
           added == level - threads[t].tokens
       IN  /\ ledger[key].granted + added <= MaxGranted
           /\ storage' = [storage EXCEPT ![key] = level]
           /\ ledger' = [ledger EXCEPT ![key].granted = @ + added]
    /\ threads' = [threads EXCEPT ![t] = [pc |-> "con_read"]]
    /\ RaceFrame

\* storage.consume reads the bucket: without a token it returns False and the
\* handler drops the message
ConsumeRead(t) ==
    /\ threads[t].pc = "con_read"
    /\ threads' = [threads EXCEPT ![t] =
                      IF storage[LimiterKey(t)] < 1 THEN [pc |-> "idle"]
                      ELSE [pc |-> "dec_read"]]
    /\ UNCHANGED <<storage, ledger>>
    /\ RaceFrame

\* ... and takes the token: the read of the in-place subtraction
DecrementRead(t) ==
    /\ threads[t].pc = "dec_read"
    /\ threads' = [threads EXCEPT ![t] = [pc |-> "dec_write", tokens |-> storage[LimiterKey(t)]]]
    /\ UNCHANGED <<storage, ledger>>
    /\ RaceFrame

\* ... and its write; consume returns True and the handler lets the message through
DecrementWrite(t) ==
    /\ threads[t].pc = "dec_write"
    /\ storage' = [storage EXCEPT ![LimiterKey(t)] = threads[t].tokens - 1]
    /\ ledger' = [ledger EXCEPT ![LimiterKey(t)].passed = @ + 1]
    /\ threads' = [threads EXCEPT ![t] = [pc |-> "idle"]]
    /\ RaceFrame

RaceNext ==
    \E t \in Threads :
        \/ EnterConsume(t)
        \/ ReplenishRead(t)
        \/ \E elapsed \in 0..1 : ReplenishWrite(t, elapsed)
        \/ ConsumeRead(t)
        \/ DecrementRead(t)
        \/ DecrementWrite(t)

RaceSpec ==
    RaceInit /\ [][RaceNext]_vars

----------------------------------------------------------------------------
(* Start-up: the steps of main() interleaved with the events the link and  *)
(* the chat-room deliver.                                                  *)

\* the chat-room messages drawn at start-up: three that send a command, one of chat
StartLines ==
    { CmdOnline, Join(<<CmdStats, WUsed, WHi>>, <<" ">>),
      Join(<<CmdKillbot, WServer, WBot>>, <<" ">>), WHi }

StartQQEvents ==
    { GroupMessage(s, raw) : s \in Senders, raw \in StartLines }

\* the globals as the module defines them, config loaded: nothing constructed, no
\* socket.  The buckets are shown at their capacity from the start: the storage
\* creates a bucket at capacity when it is first asked for.
StartInit ==
    /\ config = ChatRoomDefaults
                  @@ (CHOOSE r \in RemoteConfigs : /\ r.mc_whitelist /\ r.mc_to_qq_auto
                                                    /\ r.forward_join_message /\ r.mc_limiter
                                                    /\ r.mc_max_length = 0)
    /\ chatClient = "None"
    /\ cq_bot = "None"
    /\ online = FALSE
    /\ storage = [k \in Keys |-> Capacity]
    /\ event = NoEvent
    /\ effect = Quiet
    /\ connected = FALSE
    /\ main_pc = "load"
    /\ inflight = {}
    /\ threads = IdleThreads
    /\ ledger = FreshLedger

\* rate_storage, qq_limiter, mc_limiter
MainCreatesLimiters ==
    /\ main_pc = "load"
    /\ main_pc' = "limiters"
    /\ UNCHANGED <<config, chatClient, cq_bot, online, storage, event, effect, connected,
                   inflight>>
    /\ UNCHANGED raceVars

\* chatClient = CqHttpChatBridgeClient.create(config)
MainCreatesClient ==
    /\ main_pc = "limiters"
    /\ chatClient' = "client"
    /\ main_pc' = "client"
    /\ UNCHANGED <<config, cq_bot, online, storage, event, effect, connected, inflight>>
    /\ UNCHANGED raceVars

\* utils.start_guardian(chatClient): the link's thread runs from here on
MainStartsGuardian ==
    /\ main_pc = "client"
    /\ main_pc' = "guardian"
    /\ UNCHANGED <<config, chatClient, cq_bot, online, storage, event, effect, connected,
                   inflight>>
    /\ UNCHANGED raceVars

\* cq_bot = CQBot(config)
MainCreatesBot ==
    /\ main_pc = "guardian"
    /\ cq_bot' = "bot"
    /\ main_pc' = "bot"
    /\ UNCHANGED <<config, chatClient, online, storage, event, effect, connected, inflight>>
    /\ UNCHANGED raceVars

\* cq_bot.start(): the socket is opened and the bot's loop runs
MainStartsBot ==
    /\ main_pc = "bot"
    /\ connected' = TRUE
    /\ main_pc' = Running
    /\ UNCHANGED <<config, chatClient, cq_bot, online, storage, event, effect, inflight>>
    /\ UNCHANGED raceVars

\* the commands a handler call sent, as the link carries them
Sent(eff) ==
    { [command |-> eff.commands[i].command, params |-> eff.commands[i].params] :
        i \in 1..Len(eff.commands) }

\* what the link can hand to on_command: another client's request, or the result of
\* a command this client has sent
Deliverable(payload) ==
    \/ ~payload.responded
    \/ [command |-> payload.command, params |-> payload.params] \in inflight

\* the result of a command is delivered once
Delivered(payload) ==
    IF payload.responded
    THEN inflight \ {[command |-> payload.command, params |-> payload.params]}
    ELSE inflight

StartNext ==
    \/ MainCreatesLimiters
    \/ MainCreatesClient
    \/ MainStartsGuardian
    \/ MainCreatesBot
    \/ MainStartsBot
    \/ \E data \in StartQQEvents : OnMessage(data) /\ inflight' = inflight \cup Sent(effect')
    \/ \E sender \in ChatSenders, payload \in ChatPayloads : OnChat(sender, payload)
    \/ \E payload \in Payloads :
          Deliverable(payload) /\ OnCommand(payload) /\ inflight' = Delivered(payload)
    \/ HandlerReturns
    \/ LinkStarted /\ LinkChanges

StartSpec ==
    StartInit /\ [][StartNext]_vars

----------------------------------------------------------------------------
(* Properties.  The predicates below describe the event just handled in    *)
(* the words of the specification, from the event's fields and config.     *)

\* the event just handled is a group text message of the relay group, not anonymous
RelayGroupMessage ==
    /\ event.handler = "on_message"
    /\ event.data.post_type = "message"
    /\ event.data.message_type = "group"
    /\ ~event.data.anonymous
    /\ event.data.group_id = config.react_group_id

\* ... whose sender the access lists turn away
SenderDenied ==
    \/ config.qq_whitelist /\ event.data.user_id \notin config.qq_list
    \/ ~config.qq_whitelist /\ event.data.user_id \in config.qq_list

SenderIsAdmin ==
    event.data.user_id \in config.admin

\* ... which passed the access gate
Admitted ==
    RelayGroupMessage /\ ~SenderDenied

\* the tokens after the privileged prefix, and whether the line is a privileged line
\* of at least 3 tokens
LineTokens ==
    PrivilegedTokens(event.data.raw_message)

PrivilegedLine ==
    /\ StartsWith(Strip(event.data.raw_message), <<"#">>)
    /\ Len(LineTokens) >= 3

OfflineAlias ==
    Lower(LineTokens[1]) \in {AliasOfflineZh, AliasOffline}

WhitelistAlias ==
    Lower(LineTokens[1]) \in {AliasWhitelistZh, AliasWhitelist}

\* the same predicates of the event about to be handled
RelayGroupMessageNext ==
    /\ event'.handler = "on_message"
    /\ event'.data.post_type = "message"
    /\ event'.data.message_type = "group"
    /\ ~event'.data.anonymous
    /\ event'.data.group_id = config.react_group_id

SenderDeniedNext ==
    \/ config.qq_whitelist /\ event'.data.user_id \notin config.qq_list
    \/ ~config.qq_whitelist /\ event'.data.user_id \in config.qq_list

\* C1: a relay-group message whose sender is not allowed (whitelist mode and not
\* on qq_list, or blacklist mode and on qq_list) is dropped silently, whatever its
\* text and also when the sender is an admin: no text is sent to the chat-room, no
\* send_command, no send_chat, consume is not called and no bucket changes.
C1_AccessGateDrops ==
    [][(event = NoEvent /\ RelayGroupMessageNext /\ SenderDeniedNext)
         => (effect' = Quiet /\ storage' = storage)]_vars

\* C1 witness: a denied admin's free text was handled under auto-forward and nothing
\* was done.
C1_Witness ==
    /\ RelayGroupMessage /\ SenderDenied /\ SenderIsAdmin
    /\ config.qq_to_mc_auto
    /\ event.data.raw_message = WHi
    /\ effect = Quiet

\* C2: a privileged line (prefix '#', at least 3 tokens) of a non-admin whose second
\* token is '/', '!', an alias whose allow-for-everyone override is disabled, or any
\* other token never issues send_command or send_chat; once past the access gate its
\* only effect is exactly one reply, the rejection notice.
C2_NonAdminRejected ==
    (/\ RelayGroupMessage /\ ~SenderIsAdmin /\ PrivilegedLine
     /\ ~(OfflineAlias /\ config.allow_easyauth_offline_reg_for_everyone)
     /\ ~(WhitelistAlias /\ config.allow_whitelist_for_everyone))
    => /\ effect.commands = <<>>
       /\ effect.chats = <<>>
       /\ effect.consumed = <<>>
       /\ ~SenderDenied => effect.sent = <<RejectNotice>>

\* C2 witness: an admitted non-admin sent "白名单 <server> Steve" behind the prefix
\* with the whitelist override disabled and got the rejection notice.
C2_Witness ==
    /\ Admitted /\ ~SenderIsAdmin /\ PrivilegedLine
    /\ LineTokens = <<AliasWhitelistZh, WServer, WSteve>>
    /\ ~config.allow_whitelist_for_everyone
    /\ config.qq_to_mc_auto
    /\ effect.sent = <<RejectNotice>>

\* the username a registration or whitelist line supplies, and the command the line
\* stands for
SuppliedName ==
    Strip(LineTokens[3])

ManagementLine ==
    PrivilegedLine /\ (OfflineAlias \/ WhitelistAlias)

SynthesizedCommand ==
    [client |-> LineTokens[2],
     command |-> (IF OfflineAlias THEN AuthCmdPrefix ELSE WhitelistCmdPrefix) \o SuppliedName,
     params |-> [IsQQ |-> TRUE, Type |-> "Vanilla"]]

\* C3: an offline-registration or whitelist line is authorized when the sender is an
\* admin or the alias's override is enabled; in particular an admin's line with a
\* valid username, handled while the remote link is online, sends the synthesized
\* command to the named target with chat-room-origin metadata, whatever the override.
C3_AdminManagementSent ==
    (/\ Admitted /\ SenderIsAdmin /\ ManagementLine
     /\ is_valid_minecraft_username(SuppliedName)
     /\ online)
    => effect.commands = <<SynthesizedCommand>>

\* C4: a privileged line of at least 3 tokens is handled to the end inside the
\* privileged gate, whatever the admin check and the second token say: it never
\* reaches the free-text relay, so it is never sent as chat.
C4_PrivilegedLineNeverRelayed ==
    (Admitted /\ PrivilegedLine) => (effect.chats = <<>> /\ effect.consumed = <<>>)

\* C5 as stated: an admin's "# target 10 2", handled while the remote link is
\* online, issues a remote command marked chat-room origin (IsQQ) and raw (Vanilla).
C5_TargetLineIssuesRaw ==
    (/\ Admitted /\ SenderIsAdmin /\ online
     /\ event.data.raw_message = <<"#", " ">> \o Join(<<WTarget, WTen, WTwo>>, <<" ">>))
    => \E i \in 1..Len(effect.commands) :
          effect.commands[i].params = [IsQQ |-> TRUE, Type |-> "Vanilla"]

\* C5 amended: an admin's "# / target 10 2" (prefix, the raw operator "/", the
\* target, the command), handled while the remote link is online, sends exactly the
\* command "10 2" to client "target" with metadata IsQQ and Vanilla, and nothing else.
C5_RawOperatorLineIssuesRaw ==
    (/\ Admitted /\ SenderIsAdmin /\ online
     /\ event.data.raw_message
          = <<"#", " ">> \o Join(<<<<"/">>, WTarget, WTen, WTwo>>, <<" ">>))
    => /\ effect.commands = <<[client |-> WTarget, command |-> Join(<<WTen, WTwo>>, <<" ">>),
                              params |-> [IsQQ |-> TRUE, Type |-> "Vanilla"]]>>
       /\ effect.sent = <<>>
       /\ effect.chats = <<>>

\* C5 witness: that line was handled for an admin while online and a command went out.
C5_Witness ==
    /\ Admitted /\ SenderIsAdmin /\ online
    /\ event.data.raw_message
         = <<"#", " ">> \o Join(<<<<"/">>, WTarget, WTen, WTwo>>, <<" ">>)
    /\ Len(effect.commands) = 1

\* C6: every chat-room command that forwards to the remote side when the link is
\* online (privileged raw and framework, registration, whitelist, !!online, !!stats,
\* !!killbot) issues no send_command when the link is offline, and the chat-room
\* gets the offline notice instead.
C6_OfflineNoticeInsteadOfCommand ==
    (/\ Admitted /\ ~online
     /\ on_message(config, chatClient, TRUE, connected, storage, event.data).effect.commands # <<>>)
    => (effect.commands = <<>> /\ effect.sent = <<OfflineNotice>>)

\* the event just handled is a command payload with responded set
RespondedResult ==
    event.handler = "on_command" /\ event.payload.responded

\* C7 as stated: a responded command result without the chat-room-origin marker
\* (IsQQ) sends no text to the chat-room, whatever command it answers.
C7_NoMarkerNoText ==
    (RespondedResult /\ ~event.payload.params.IsQQ) => effect.sent = <<>>

\* C7 amended: a responded command result without the chat-room-origin marker sends
\* no text to the chat-room unless its command starts with "!!stats " or is exactly
\* "!!online"; results of those two commands are rendered whatever the marker.
C7_NoMarkerNoTextUnlessQuery ==
    (/\ RespondedResult /\ ~event.payload.params.IsQQ
     /\ ~StartsWith(event.payload.command, StatsPrefix)
     /\ event.payload.command # CmdOnline)
    => effect = Quiet

\* C7 witness: the unmarked result of another client's "whitelist add Steve" was
\* handled and nothing was sent.
C7_Witness ==
    /\ RespondedResult /\ ~event.payload.params.IsQQ
    /\ event.payload.command = WhitelistCmdPrefix \o WSteve
    /\ event.payload.result.success
    /\ effect.sent = <<>>

\* the message about to be handled asks for the free-text relay and is no command:
\* plain text under auto-forward, or "!!mc <text>"
PlainChatNext ==
    LET raw  == event'.data.raw_message
        args == SplitSep(raw, " ")
    IN  \/ /\ config.qq_to_mc_auto
           /\ ~StartsWith(Strip(raw), <<"#">>)
           /\ ~StartsWith(raw, BangBang)
        \/ Len(args) >= 2 /\ args[1] = CmdMc

\* C8: with the limiter enabled and whatever the inbound-to-server bucket holds, an
\* admitted admin's message is never dropped as throttled, and handling it neither
\* calls consume nor changes either bucket; its free text is relayed unless it is
\* over the length cap.
C8_AdminBypassesRateGate ==
    [][(/\ event = NoEvent /\ RelayGroupMessageNext /\ ~SenderDeniedNext
        /\ event'.data.user_id \in config.admin
        /\ config.qq_limiter)
         => /\ storage' = storage
            /\ effect'.consumed = <<>>
            /\ effect'.warnings # <<"rate">>
            /\ PlainChatNext =>
                 (Len(effect'.chats) = 1 \/ effect'.warnings = <<"length">>)]_vars

\* C8 witness: the bucket was empty, the limiter enabled, and an admin's "hi" was
\* relayed.
C8_Witness ==
    /\ Admitted /\ SenderIsAdmin
    /\ config.qq_limiter /\ storage["qq"] = 0
    /\ event.data.raw_message = WHi
    /\ Len(effect.chats) = 1

\* the space-separated tokens of the message, and their number not counting a -bot
\* flag token
MessageArgs ==
    SplitSep(event.data.raw_message, " ")

ArityWithoutFlag ==
    Len(MessageArgs) - (IF \E i \in 1..Len(MessageArgs) : MessageArgs[i] = BotFlag THEN 1 ELSE 0)

\* C9: !!stats is forwarded to the stats target iff the number of space-separated
\* tokens, not counting an optional -bot flag token, is exactly 3; for every other
\* count the sender gets the stats usage text and nothing is forwarded.
C9_StatsForwardedIffArity ==
    (Admitted /\ MessageArgs[1] = CmdStats)
    => IF ArityWithoutFlag = 3
       THEN /\ Len(effect.commands) = 1
            /\ effect.commands[1].client = config.client_to_query_stats
            /\ effect.sent = <<>>
       ELSE effect.commands = <<>> /\ effect.sent = <<StatsHelpMessage>>

\* C10: for a sender authorized for a registration or whitelist line (admin, or the
\* alias's override enabled), a username failing the syntax rule yields exactly one
\* reply, the illegal-username notice, and no send_command, online or offline; a
\* synthesized command is only sent with a username that passed validation.
C10_InvalidUsernameRejected ==
    (/\ Admitted /\ ManagementLine
     /\ \/ SenderIsAdmin
        \/ OfflineAlias /\ config.allow_easyauth_offline_reg_for_everyone
        \/ WhitelistAlias /\ config.allow_whitelist_for_everyone)
    => IF is_valid_minecraft_username(SuppliedName)
       THEN effect.commands \in {<<>>, <<SynthesizedCommand>>}
       ELSE effect.sent = <<IllegalNameNotice>> /\ effect.commands = <<>>
\* the arguments of the message just handled
EventArgs ==
    SplitSep(event.data.raw_message, " ")

\* the message just handled is answered as a command: a privileged line, a
\* single-token !!help, !!ping or !!online, a !!stats line, a three-token !!killbot
CommandLine ==
    \/ PrivilegedLine
    \/ Len(EventArgs) = 1 /\ EventArgs[1] \in {CmdHelp, CmdPing, CmdOnline}
    \/ EventArgs[1] = CmdStats
    \/ Len(EventArgs) = 3 /\ EventArgs[1] = CmdKillbot

\* free text to relay: under auto-forward, or behind '!!mc' with at least two tokens
RelayTriggered ==
    \/ config.qq_to_mc_auto
    \/ Len(EventArgs) >= 2 /\ EventArgs[1] = CmdMc

\* a complete, admitted chat-room event with free text for the relay step
FreeTextEvent ==
    /\ event.handler = "on_message"
    /\ {"post_type", "message_type", "anonymous", "sender"} \subseteq DOMAIN event.data
    /\ Admitted /\ ~CommandLine /\ RelayTriggered

\* the text the chat-room side relays: the whole message under auto-forward, else
\* what follows '!!mc ', unescaped and with rich content replaced
QQText ==
    sanitizeRichContent(html_unescape(
        IF config.qq_to_mc_auto THEN event.data.raw_message
        ELSE From(event.data.raw_message, Len(CmdMc) + 2)))

\* the remote chat event just handled came from an allowed author
RemoteAdmitted ==
    /\ event.handler = "on_chat"
    /\ IF config.mc_whitelist THEN event.payload.author \in config.mc_list
       ELSE event.payload.author \notin config.mc_list

\* its first space-delimited token is exactly '!!qq' and a space follows
ExplicitTrigger ==
    StartsWith(event.payload.message, CmdQq \o <<" ">>)

\* it is plain chat for the auto-forward path, not filtered as a join or leave notice
AutoTriggered ==
    /\ config.mc_to_qq_auto
    /\ ~StartsWith(Strip(event.payload.message), BangBang)
    /\ config.forward_join_message \/ ~JoinLeaveNotice(Strip(event.payload.message))

\* the text the remote side relays: the message, without the trigger on the explicit
\* path, behind the author's name
McText ==
    LET m == IF ExplicitTrigger THEN From(event.payload.message, Len(CmdQq) + 2)
             ELSE event.payload.message
    IN  IF event.payload.author = <<>> THEN m
        ELSE <<"<">> \o event.payload.author \o <<">", " ">> \o m

\* the event was not throttled and nothing was raised: it reached the length check
PastRateGate ==
    effect.warnings # <<"rate">> /\ effect.raised = "no"

\* C11: in both directions a free-text message that passed the rate gate is dropped,
\* with no forward and no reply, exactly when 0 < max_length < len(text); otherwise
\* the whole text is forwarded (to the chat-room through send_text), so a text of
\* exactly max_length characters is forwarded, max_length = 0 never drops, and no
\* text cut to the cap is ever forwarded.
C11_LengthCapBothDirections ==
    /\ (FreeTextEvent /\ PastRateGate) =>
          IF 0 < config.qq_max_length /\ config.qq_max_length < Len(QQText)
          THEN effect.chats = <<>> /\ effect.sent = <<>> /\ effect.commands = <<>>
          ELSE /\ Len(effect.chats) = 1 /\ effect.chats[1].message = QQText
               /\ effect.sent = <<>> /\ effect.commands = <<>>
    /\ (RemoteAdmitted /\ (ExplicitTrigger \/ AutoTriggered) /\ PastRateGate) =>
          IF 0 < config.mc_max_length /\ config.mc_max_length < Len(McText)
          THEN effect.sent = <<>> /\ effect.chats = <<>> /\ effect.commands = <<>>
          ELSE /\ effect.sent = send_text(<<"[">> \o event.sender \o <<"]", " ">> \o McText)
               /\ effect.chats = <<>> /\ effect.commands = <<>>

\* C11 witness: with mc_max_length = 10 the remote text '<Steve> hi' of exactly 10
\* characters was forwarded whole.
C11_Witness ==
    /\ RemoteAdmitted /\ AutoTriggered /\ PastRateGate
    /\ config.mc_max_length = 10 /\ Len(McText) = 10
    /\ effect.sent = <<<<"[">> \o event.sender \o <<"]", " ">> \o McText>>

\* the texts handed to _send_text, one after the other
RECURSIVE Concat(_)
Concat(chunks) ==
    IF chunks = <<>> THEN <<>> ELSE chunks[1] \o Concat(Tail(chunks))

\* the text without its trailing whitespace
RECURSIVE Trimmed(_)
Trimmed(text) ==
    IF text # <<>> /\ text[Len(text)] \in {" ", "\n", "\t"}
    THEN Trimmed(SubSeq(text, 1, Len(text) - 1))
    ELSE text

\* every chunk is a run of whole lines: it is not empty, and a chunk another chunk
\* follows ends with a line break
WholeLines(chunks) ==
    /\ \A k \in 1..Len(chunks) : chunks[k] # <<>>
    /\ \A k \in 1..(Len(chunks) - 1) : chunks[k][Len(chunks[k])] = "\n"

\* C12 as stated: the chunks send_text emits, concatenated, are the text it was
\* given, and every chunk is a run of whole lines.
C12_ChunksReproduceText ==
    event.handler = "send_text" =>
        (Concat(effect.sent) = event.text /\ WholeLines(effect.sent))

\* C12, amended: the chunks send_text emits, concatenated, are the text without its
\* trailing whitespace, and every chunk is a run of whole lines of it.
C12_ChunksReproduceTrimmedText ==
    event.handler = "send_text" =>
        (Concat(effect.sent) = Trimmed(event.text) /\ WholeLines(effect.sent))

\* C12 witness: a text of three lines ending in a line break went out in more than
\* one chunk, and the chunks together are the text without that line break.
C12_Witness ==
    /\ event.handler = "send_text"
    /\ Len(effect.sent) > 1
    /\ Concat(effect.sent) \o <<"\n">> = event.text

\* the line breaks inside a chunk, its last character not counted
InnerBreaks(chunk) ==
    {i \in 1..(Len(chunk) - 1) : chunk[i] = "\n"}

\* C13: a chunk send_text emits has at most 500 characters unless it is exactly one
\* line of the text that is itself longer than 500 characters (its line break
\* counted); no line is split; a text of 1200 characters without line break is
\* emitted as exactly one chunk of all 1200 characters.
C13_ChunkSizeBound ==
    event.handler = "send_text" =>
        /\ \A k \in 1..Len(effect.sent) :
              Len(effect.sent[k]) <= ChunkLimit \/ InnerBreaks(effect.sent[k]) = {}
        /\ WholeLines(effect.sent)
        /\ (Len(event.text) = 1200 /\ \A i \in 1..1200 : event.text[i] = "a")
              => effect.sent = <<event.text>>

\* C13 witness: the text of 1200 characters without line break went out as one chunk.
C13_Witness ==
    /\ event.handler = "send_text"
    /\ Len(event.text) = 1200
    /\ effect.sent = <<event.text>>

\* what the chat-room is sent for the remote text just relayed
McSent ==
    send_text(<<"[">> \o event.sender \o <<"]", " ">> \o McText)

McOversize ==
    0 < config.mc_max_length /\ config.mc_max_length < Len(McText)

\* the rate gate and the length cap applied to a remote message to relay, storage
\* being the buckets before the event: throttled without a token, else one token
\* spent with the limiter enabled, and the text dropped if oversize, else sent
McGateAndCap ==
    IF config.mc_limiter /\ storage["mc"] < 1
    THEN /\ effect'.sent = <<>> /\ effect'.consumed = <<"mc">>
         /\ effect'.warnings = <<"rate">> /\ storage' = storage
    ELSE /\ IF config.mc_limiter
            THEN effect'.consumed = <<"mc">> /\ storage' = [storage EXCEPT !["mc"] = @ - 1]
            ELSE effect'.consumed = <<>> /\ storage' = storage
         /\ IF McOversize' THEN effect'.sent = <<>> /\ effect'.warnings = <<"length">>
            ELSE effect'.sent = McSent' /\ effect'.warnings = <<>>

\* C14: an allowed remote chat message whose first space-delimited token is exactly
\* '!!qq', followed by text, is forwarded with the trigger stripped, subject to the
\* rate gate and the length cap, with auto-forward enabled and with it disabled;
\* with auto-forward disabled no other remote chat message is forwarded.
C14_ExplicitRelayWhateverAuto ==
    [][/\ (event = NoEvent /\ RemoteAdmitted' /\ ExplicitTrigger') => McGateAndCap
       /\ (event = NoEvent /\ event'.handler = "on_chat"
             /\ ~config.mc_to_qq_auto /\ ~ExplicitTrigger')
            => (effect' = Quiet /\ storage' = storage)]_vars

\* C14 witness: with auto-forward enabled '!!qq hi there' of Steve reached the
\* chat-room as '[smp] <Steve> hi there'.
C14_Witness ==
    /\ RemoteAdmitted /\ ExplicitTrigger /\ config.mc_to_qq_auto
    /\ event.payload.message = Join(<<CmdQq, WHi, WThere>>, <<" ">>)
    /\ event.payload.author = WSteve
    /\ effect.sent = <<<<"[">> \o WServer \o <<"]", " ", "<">> \o WSteve \o <<">", " ">>
                        \o Join(<<WHi, WThere>>, <<" ">>)>>

\* the remote chat event is plain chat under auto-forward: the auto-forward path
AutoPath ==
    /\ RemoteAdmitted
    /\ config.mc_to_qq_auto
    /\ ~StartsWith(Strip(event.payload.message), BangBang)

\* ... a join or leave notice while forwarding those is disabled
FilteredNotice ==
    ~config.forward_join_message /\ JoinLeaveNotice(Strip(event.payload.message))

\* C17: on the auto-forward path of on_chat the join/leave filter comes before the
\* rate gate and the rate gate before the length cap: a notice dropped because
\* forwarding join and leave messages is disabled consumes no 'mc' token and calls
\* consume not at all; every other message, with the limiter enabled, calls consume
\* exactly once whoever wrote it, also when it is then dropped as oversize, and a
\* throttled message is dropped as throttled whatever its length.
C17_FilterThenGateThenCap ==
    [][(event = NoEvent /\ AutoPath') =>
         IF FilteredNotice' THEN effect' = Quiet /\ storage' = storage
         ELSE McGateAndCap]_vars

\* C17 witness: with the limiter enabled an oversize message spent a token and was
\* dropped for its length.
C17_Witness ==
    /\ AutoPath /\ ~FilteredNotice /\ config.mc_limiter /\ McOversize
    /\ effect.consumed = <<"mc">> /\ effect.warnings = <<"length">>
    /\ effect.sent = <<>> /\ storage["mc"] = Capacity - 1

\* the buckets after the keys in asked were each asked for one token
RECURSIVE AfterAsking(_, _)
AfterAsking(store, asked) ==
    IF asked = <<>> THEN store
    ELSE AfterAsking([store EXCEPT ![asked[1]] = IF @ >= 1 THEN @ - 1 ELSE @], Tail(asked))

\* C15: an exception raised while on_message or on_chat handles an event is caught
\* inside the handler, which returns normally: it never leaves the handler, the
\* event is dropped with nothing forwarded, and the state later events are handled
\* in is the state before the event, apart from the tokens consumed before the
\* exception.
C15_ExceptionsStayInsideHandler ==
    [][(event = NoEvent /\ event'.handler \in {"on_message", "on_chat"}) =>
         /\ effect'.raised \in {"no", "caught"}
         /\ effect'.raised = "caught" =>
              /\ effect'.sent = <<>> /\ effect'.chats = <<>> /\ effect'.commands = <<>>
              /\ storage' = AfterAsking(storage, effect'.consumed)
              /\ UNCHANGED <<config, chatClient, cq_bot, online, connected>>]_vars

\* C15 witness: on_message raised on an event without 'sender' after it had spent
\* the last 'qq' token; the exception was caught and nothing was forwarded.
C15_Witness ==
    /\ event.handler = "on_message"
    /\ "sender" \notin DOMAIN event.data
    /\ effect.raised = "caught"
    /\ effect.consumed = <<"qq">> /\ storage["qq"] = Capacity - 1
    /\ effect.chats = <<>>

\* C16: with both routers inside consume at once, in every interleaving of their
\* reads and writes of the shared storage: the messages let through never exceed the
\* tokens granted, every bucket holds exactly the tokens granted and not yet spent
\* (no token spent twice, no decrement lost), and a step of one router never
\* changes the other direction's bucket.
C16_RateGateIntegrity ==
    /\ [](\A k \in Keys : /\ ledger[k].passed <= ledger[k].granted
                          /\ storage[k] = ledger[k].granted - ledger[k].passed)
    /\ [][(threads'["qq"] # threads["qq"] => storage'["mc"] = storage["mc"])
           /\ (threads'["mc"] # threads["mc"] => storage'["qq"] = storage["qq"])]_vars

\* C16 witness: both routers are inside consume, each about to write its own
\* bucket, after one of them has already let a message through.
C16_Witness ==
    /\ threads["qq"].pc = "dec_write" /\ threads["mc"].pc = "dec_write"
    /\ ledger["qq"].passed >= 1

\* the event is free text for the relay step, of a sender who is not an admin, with
\* the chat-room limiter enabled
AsksLimiter ==
    FreeTextEvent /\ ~SenderIsAdmin /\ config.qq_limiter

QQOversize ==
    0 < config.qq_max_length /\ config.qq_max_length < Len(QQText)

\* C18: handling one chat-room event calls consume exactly once, on 'qq', if and only
\* if the event passes the group/anonymous and access gates, is not answered as a
\* command, triggers the free-text relay, its sender is not an admin and the limiter
\* is enabled; then one 'qq' token is spent if there is one, also when the message is
\* then dropped as oversize.  In every other case consume is not called and both
\* buckets are unchanged; the 'mc' bucket is never changed.
C18_ConsumeOnlyAtFreeTextRelay ==
    /\ [](event.handler = "on_message" =>
            /\ effect.consumed = IF AsksLimiter THEN <<"qq">> ELSE <<>>
            /\ (AsksLimiter /\ QQOversize) => effect.chats = <<>>)
    /\ [][(event = NoEvent /\ event'.handler = "on_message") =>
             /\ storage'["mc"] = storage["mc"]
             /\ storage'["qq"] = IF effect'.consumed = <<"qq">> /\ storage["qq"] >= 1
                                  THEN storage["qq"] - 1 ELSE storage["qq"]]_vars

\* C18 witness: an oversize message of a non-admin spent the 'qq' token and was not
\* forwarded.
C18_Witness ==
    /\ AsksLimiter /\ QQOversize
    /\ effect.consumed = <<"qq">> /\ storage["qq"] = Capacity - 1
    /\ effect.warnings = <<"length">> /\ effect.chats = <<>>

\* C19: handling one chat-room event makes at most one call on the remote link, one
\* send_command or one send_chat and never both, and never both a call on the remote
\* link and a reply in the chat-room.
C19_SingleOutcome ==
    event.handler = "on_message" =>
        /\ Len(effect.commands) + Len(effect.chats) <= 1
        /\ (effect.commands # <<>> \/ effect.chats # <<>>) => effect.sent = <<>>

\* C19 witness: '!!killbot smp bot' with the link online sent one command, no chat
\* and no reply.
C19_Witness ==
    /\ Admitted /\ online
    /\ event.data.raw_message = Join(<<CmdKillbot, WServer, WBot>>, <<" ">>)
    /\ Len(effect.commands) = 1 /\ effect.chats = <<>> /\ effect.sent = <<>>

\* C20: in every interleaving of main()'s construction steps with event delivery no
\* handler calls a method on a peer that is still None: a remote chat event
\* delivered before cq_bot is assigned is dropped by on_chat with no send and no
\* token consumed (no bucket is touched before the bot exists), a chat-room event
\* delivered while chatClient is None is dropped by on_message, and on_command
\* renders a result only when the bot exists, results answering only commands the
\* bot's own on_message has sent.
C20_NoPeerUsedBeforeItExists ==
    /\ (event.handler = "on_chat" /\ cq_bot = "None") => effect = Quiet
    /\ cq_bot = "None" => storage = [k \in Keys |-> Capacity]
    /\ (event.handler = "on_message" /\ chatClient = "None") => effect = Quiet
    /\ (event.handler = "on_command" /\ event.payload.responded) => cq_bot = "bot"
    /\ event.handler = "on_command" => effect.raised = "no"

\* C20 witness: Steve's 'hi' arrived after the link was started and before cq_bot
\* was assigned, and on_chat dropped it.
C20_Witness ==
    /\ event.handler = "on_chat"
    /\ main_pc = "guardian" /\ cq_bot = "None"
    /\ event.payload = [author |-> WSteve, message |-> WHi]
    /\ effect = Quiet /\ storage["mc"] = Capacity

====
